---- MODULE Spec2Model ----
(***************************************************************************)
(* Low-rank matrix algebra of graphdot/linalg/low_rank.py.                 *)
(*                                                                         *)
(* The Python heap is modelled explicitly: `objs` are the representation   *)
(* objects the caller holds, `lists` are the Python list objects that Sum  *)
(* instances store in their `factors` attribute (a Sum refers to its list  *)
(* by identity, so two Sums can share one list).  Numbers are exact        *)
(* rationals extended with inf and nan (the values numpy produces for 1/0  *)
(* and 0*inf); floating-point rounding is not modelled.                    *)
(***************************************************************************)
EXTENDS Integers, Sequences, FiniteSets, TLC

VARIABLES objs, lists, last

vars == <<objs, lists, last>>

(***************************************************************************)
(* Bounds of the model.                                                    *)
(***************************************************************************)
\* Number of representation objects a run may allocate.
MaxObjs == 3

(***************************************************************************)
(* Scalars: <<n, d>> is n/d in lowest terms with d >= 0; <<1,0>> and       *)
(* <<-1,0>> are +inf and -inf, <<0,0>> is nan.                             *)
(***************************************************************************)
Abs(x) == IF x < 0 THEN -x ELSE x

Sign(x) == IF x < 0 THEN -1 ELSE IF x = 0 THEN 0 ELSE 1

RECURSIVE GCD(_, _)
GCD(a, b) == IF b = 0 THEN a ELSE GCD(b, a % b)

QNorm(n, d) ==
    IF d = 1 THEN <<n, 1>>
    ELSE IF d = 0 THEN <<Sign(n), 0>>
    ELSE LET g == GCD(Abs(n), Abs(d))
         IN  <<(Sign(d) * n) \div g, Abs(d) \div g>>

Q(n) == <<n, 1>>

QZero == Q(0)

QNaN == <<0, 0>>

QIsFinite(a) == a[2] # 0

QAdd(a, b) ==
    IF a[2] = 0 /\ b[2] = 0
    THEN (IF a = b THEN a ELSE QNaN)
    ELSE QNorm(a[1] * b[2] + b[1] * a[2], a[2] * b[2])

QMul(a, b) == QNorm(a[1] * b[1], a[2] * b[2])

QNeg(a) == <<-a[1], a[2]>>

QSub(a, b) == QAdd(a, QNeg(b))

\* 1 / a, elementwise numpy semantics: 1/0 = inf, 1/inf = 0, 1/nan = nan.
QInv(a) == QNorm(a[2], a[1])

\* a >= b for finite a and b.
QGeq(a, b) == a[1] * b[2] >= b[1] * a[2]

QMax(a, b) == IF QGeq(a, b) THEN a ELSE b

RECURSIVE QSumSeq(_)
QSumSeq(s) == IF s = <<>> THEN QZero ELSE QAdd(Head(s), QSumSeq(Tail(s)))

(***************************************************************************)
(* Dense arrays (numpy.ndarray, 2-D): [nr, nc, a] with a a sequence of nr  *)
(* rows of nc scalars.  MatErr stands for an exception raised by numpy     *)
(* (shape mismatch, inhomogeneous stacking, ...).                          *)
(***************************************************************************)
MatErr == [nr |-> -1, nc |-> -1, a |-> <<>>]

IsErr(M) == M.nr = -1

MkMat(nr, nc, a) == [nr |-> nr, nc |-> nc, a |-> a]

\* An integer literal array.
IntMat(nr, nc, rows) ==
    MkMat(nr, nc, [i \in 1..nr |-> [j \in 1..nc |-> Q(rows[i][j])]])

\* numpy `A @ B`
MatMul(A, B) ==
    IF IsErr(A) \/ IsErr(B) \/ A.nc # B.nr THEN MatErr
    ELSE MkMat(A.nr, B.nc,
               [i \in 1..A.nr |-> [j \in 1..B.nc |->
                   QSumSeq([k \in 1..A.nc |-> QMul(A.a[i][k], B.a[k][j])])]])

\* numpy `A.T`
MatT(A) ==
    IF IsErr(A) THEN MatErr
    ELSE MkMat(A.nc, A.nr, [i \in 1..A.nc |-> [j \in 1..A.nr |-> A.a[j][i]]])

\* numpy `-A`
MatNeg(A) ==
    IF IsErr(A) THEN MatErr
    ELSE MkMat(A.nr, A.nc, [i \in 1..A.nr |-> [j \in 1..A.nc |-> QNeg(A.a[i][j])]])

\* numpy `A + B` for equal shapes
MatAdd(A, B) ==
    IF IsErr(A) \/ IsErr(B) \/ A.nr # B.nr \/ A.nc # B.nc THEN MatErr
    ELSE MkMat(A.nr, A.nc,
               [i \in 1..A.nr |-> [j \in 1..A.nc |-> QAdd(A.a[i][j], B.a[i][j])]])

MatSub(A, B) == MatAdd(A, MatNeg(B))

\* numpy `A * B` (elementwise) for equal shapes
MatHadamard(A, B) ==
    IF IsErr(A) \/ IsErr(B) \/ A.nr # B.nr \/ A.nc # B.nc THEN MatErr
    ELSE MkMat(A.nr, A.nc,
               [i \in 1..A.nr |-> [j \in 1..A.nc |-> QMul(A.a[i][j], B.a[i][j])]])

\* numpy `np.sum(A, axis=1)`, kept as an nr x 1 column
RowSums(A) ==
    IF IsErr(A) THEN MatErr
    ELSE MkMat(A.nr, 1, [i \in 1..A.nr |-> <<QSumSeq(A.a[i])>>])

\* numpy `v.sum()` of a column
ColTotal(v) == QSumSeq([i \in 1..v.nr |-> v.a[i][1]])

\* numpy `A.diagonal()` of a 2-D array, as a column
MatDiagonal(A) ==
    IF IsErr(A) THEN MatErr
    ELSE LET n == IF A.nr < A.nc THEN A.nr ELSE A.nc
         IN  MkMat(n, 1, [i \in 1..n |-> <<A.a[i][i]>>])

\* numpy `U * S` with S a 1-D array: column j of U scaled by S[j]
ScaleCols(U, S) ==
    MkMat(U.nr, U.nc, [i \in 1..U.nr |-> [j \in 1..U.nc |-> QMul(U.a[i][j], S[j])]])

\* numpy `U[:, mask]`: the columns listed in keep, in order
TakeCols(U, keep) ==
    MkMat(U.nr, Len(keep), [i \in 1..U.nr |-> [j \in 1..Len(keep) |-> U.a[i][keep[j]]]])

\* numpy `np.sum(list_of_arrays, axis=0)` for a non-empty list: stacking
\* arrays of different shapes raises.
RECURSIVE SumArrays(_)
SumArrays(s) ==
    IF Len(s) = 1 THEN s[1] ELSE MatAdd(s[1], SumArrays(Tail(s)))

(***************************************************************************)
(* Representation objects.  A Factor (class LATR) stores _lhs and _rhs, a  *)
(* Spectral (class LLT) stores U, S and _lhs, a Sum stores a reference to  *)
(* a Python list.  Dense arrays and (U, S) tuples appear as arguments, and *)
(* a dense array can end up as an element of a Sum's list.                 *)
(***************************************************************************)
ndarray(a) == [kind |-> "ndarray", a |-> a]

IsNdarray(o) == o.kind = "ndarray"

\* isinstance(o, Sum)
IsSum(o) == o.kind = "Sum"

\* isinstance(o, LATR): LLT is a subclass of LATR
IsLATR(o) == o.kind \in {"LATR", "LLT"}

\* An exception leaving the call: no object is returned.
Raised(e) == [kind |-> "raise", exc |-> e]

IsRaised(o) == o.kind = "raise"

\* LATR.__init__
LATR(l, r) == [kind |-> "LATR", lhs |-> l, rhs |-> r]

\* LATR.lhs / LLT.lhs
lhs(o) == o.lhs

\* LATR.rhs / LLT.rhs: an LLT derives rhs from _lhs
rhs(o) == IF o.kind = "LLT" THEN MatT(o.lhs) ELSE o.rhs

\* Sum.__init__: the Sum keeps the very list it is given
Sum(id) == [kind |-> "Sum", factors |-> id]

\* Sum.factors: the list object the Sum refers to
factors(o) == lists[o.factors]

(***************************************************************************)
(* np.linalg.svd(X, full_matrices=False).  The decomposition is specified  *)
(* by what it returns, X = U diag(S) Vt with orthonormal U, Vt and S       *)
(* non-negative in descending order; the signs of the singular vectors     *)
(* (and their order among equal singular values) are the library's choice  *)
(* and are left open.  Inputs are drawn from arrays whose decomposition    *)
(* has integer entries.                                                    *)
(***************************************************************************)
Identity(n) ==
    MkMat(n, n, [i \in 1..n |-> [j \in 1..n |-> IF i = j THEN Q(1) ELSE QZero]])

\* The n x n orthogonal arrays with integer entries (signed permutations).
Orthogonal(n) ==
    {U \in {IntMat(n, n, r) : r \in [1..n -> [1..n -> {-1, 0, 1}]]} :
        MatMul(U, MatT(U)) = Identity(n)}

AbsEntries(X) == {<<Abs(X.a[i][j][1]), X.a[i][j][2]>> : i \in 1..X.nr, j \in 1..X.nc}

Descending(S) == \A i \in 1..(Len(S) - 1) : QGeq(S[i], S[i + 1])

svd(X) ==
    {[U |-> d[1], S |-> d[2]] :
        d \in {e \in Orthogonal(X.nr) \X [1..X.nr -> AbsEntries(X)] :
                 /\ Descending(e[2])
                 /\ \E Vt \in Orthogonal(X.nr) :
                        MatMul(ScaleCols(e[1], e[2]), Vt) = X}}

\* S.max()
RECURSIVE SeqMax(_)
SeqMax(S) == IF Len(S) = 1 THEN S[1] ELSE QMax(S[1], SeqMax(Tail(S)))

\* The indices i with mask[i] true, in increasing order (boolean-mask indexing).
RECURSIVE MaskIndices(_, _)
MaskIndices(mask, i) ==
    IF i > Len(mask) THEN <<>>
    ELSE (IF mask[i] THEN <<i>> ELSE <<>>) \o MaskIndices(mask, i + 1)

\* Mutant of TruncateMask: a strict comparison, mask = S > beta.
TruncateMask_strict(S, beta) == [i \in 1..Len(S) |-> ~QGeq(beta, S[i])]

\* mask = S >= beta
TruncateMask(S, beta) == [i \in 1..Len(S) |-> QGeq(S[i], beta)]

\* Mutant of LLT_lhs: the eigenvalue scaling is dropped, self._lhs = self.U.
LLT_lhs_unscaled(U, S) == U

\* LLT.__init__, line 116: self._lhs = self.U * self.S
LLT_lhs(U, S) == ScaleCols(U, S)

MkLLT(U, S) == [kind |-> "LLT", U |-> U, S |-> S, lhs |-> LLT_lhs(U, S)]

\* LLT.__init__(X, rcond, mode); d is the decomposition np.linalg.svd returns
\* when X is an array (unused for a tuple).
LLT(X, rcond, mode, d) ==
    IF IsNdarray(X) THEN
        LET beta == QMul(SeqMax(d.S), rcond)
        IN  IF mode = "truncate" THEN
                LET keep == MaskIndices(TruncateMask(d.S, beta), 1)
                IN  MkLLT(TakeCols(d.U, keep), [j \in 1..Len(keep) |-> d.S[keep[j]]])
            ELSE IF mode = "clamp" THEN
                MkLLT(d.U, [j \in 1..Len(d.S) |-> QMax(d.S[j], beta)])
            ELSE Raised("RuntimeError")
    ELSE MkLLT(X.U, X.S)

\* dot(X, Y=None, rcond, mode) with Y None
dot1(X, rcond, mode, d) == LLT(X, rcond, mode, d)

\* dot(X, Y) with Y given
dot2(X, Y) == LATR(X, Y)

\* Mutant of pinv: the eigenvalues are passed on without the reciprocal.
pinv_noreciprocal(o) == LLT([kind |-> "tuple", U |-> o.U, S |-> o.S], Q(0), "truncate", <<>>)

\* LLT.pinv
pinv(o) == LLT([kind |-> "tuple", U |-> o.U, S |-> [j \in 1..Len(o.S) |-> QInv(o.S[j])]],
               Q(0), "truncate", <<>>)

(***************************************************************************)
(* Methods of the elements a Sum's list can hold.                          *)
(***************************************************************************)
\* LATR.T (inherited by LLT); ndarray.T
LATR_T(t) == IF IsNdarray(t) THEN ndarray(MatT(t.a)) ELSE LATR(MatT(rhs(t)), MatT(lhs(t)))

\* LATR.__neg__ (inherited by LLT); ndarray.__neg__
LATR_neg(t) == IF IsNdarray(t) THEN ndarray(MatNeg(t.a)) ELSE LATR(MatNeg(lhs(t)), rhs(t))

\* LATR.todense (inherited by LLT); an ndarray has no todense attribute
LATR_todense(t) == IF IsNdarray(t) THEN MatErr ELSE MatMul(lhs(t), rhs(t))

\* Mutant of LATR_diagonal: rhs is used without the transpose.
LATR_diagonal_untransposed(t) == RowSums(MatHadamard(lhs(t), rhs(t)))

\* LATR.diagonal
LATR_diagonal(t) == RowSums(MatHadamard(lhs(t), MatT(rhs(t))))

\* LLT.diagonal
LLT_diagonal(t) == RowSums(MatHadamard(lhs(t), lhs(t)))

\* t.diagonal() by the element's class
term_diagonal(t) ==
    IF IsNdarray(t) THEN MatDiagonal(t.a)
    ELSE IF t.kind = "LLT" THEN LLT_diagonal(t)
    ELSE LATR_diagonal(t)

\* LATR.trace
LATR_trace(t) == ColTotal(term_diagonal(t))

\* Mutant of matmul_term: the Factor product ends with A.rhs instead of B.rhs.
matmul_term_wrong_rhs(A, B) ==
    IF IsNdarray(A) THEN
        IF IsNdarray(B) THEN
            LET r == MatMul(A.a, B.a) IN IF IsErr(r) THEN Raised("ValueError") ELSE ndarray(r)
        ELSE Raised("TypeError")
    ELSE IF IsLATR(B) THEN
        LET r == MatMul(MatMul(rhs(A), lhs(B)), rhs(A))
        IN  IF IsErr(r) THEN Raised("ValueError") ELSE LATR(lhs(A), r)
    ELSE
        LET r == MatMul(lhs(A), MatMul(rhs(A), B.a))
        IN  IF IsErr(r) THEN Raised("ValueError") ELSE ndarray(r)

\* matmul(A, B) for A not a Sum and B not a Sum, and ndarray.__matmul__ (an
\* array on the left of a representation raises: TypeError or ValueError,
\* by the numpy version).
matmul_term(A, B) ==
    IF IsNdarray(A) THEN
        IF IsNdarray(B) THEN
            LET r == MatMul(A.a, B.a) IN IF IsErr(r) THEN Raised("ValueError") ELSE ndarray(r)
        ELSE Raised("TypeError")
    ELSE IF IsLATR(B) THEN
        LET r == MatMul(MatMul(rhs(A), lhs(B)), rhs(B))
        IN  IF IsErr(r) THEN Raised("ValueError") ELSE LATR(lhs(A), r)
    ELSE
        LET r == MatMul(lhs(A), MatMul(rhs(A), B.a))
        IN  IF IsErr(r) THEN Raised("ValueError") ELSE ndarray(r)

(***************************************************************************)
(* Methods of any representation.  A Sum reads its list from the heap; the *)
(* ...In forms take the list heap L explicitly.                            *)
(***************************************************************************)
factorsIn(L, o) == L[o.factors]

\* Sum.todense / LATR.todense
todenseIn(L, o) ==
    IF IsSum(o)
    THEN SumArrays([k \in 1..Len(factorsIn(L, o)) |-> LATR_todense(factorsIn(L, o)[k])])
    ELSE LATR_todense(o)

todense(o) == todenseIn(lists, o)

\* Sum.diagonal / LATR.diagonal / LLT.diagonal
diagonal(o) ==
    IF IsSum(o) THEN SumArrays([k \in 1..Len(factors(o)) |-> term_diagonal(factors(o)[k])])
    ELSE term_diagonal(o)

\* Sum.trace / LATR.trace
traceIn(L, o) ==
    IF IsSum(o)
    THEN QSumSeq([k \in 1..Len(factorsIn(L, o)) |-> ColTotal(term_diagonal(factorsIn(L, o)[k]))])
    ELSE LATR_trace(o)

trace(o) == traceIn(lists, o)

(***************************************************************************)
(* The dispatch functions and the Sum methods that build new objects.      *)
(* Each yields [lists, ret]: the list heap after the call and the value    *)
(* returned (or the exception raised).                                     *)
(***************************************************************************)
\* add(A, B): `factors` is A's own list when A is a Sum, and `+=` extends
\* that list in place.
add(A, B) ==
    LET Bf == IF IsSum(B) THEN factors(B) ELSE <<B>>
    IN  IF IsSum(A)
        THEN [lists |-> [lists EXCEPT ![A.factors] = @ \o Bf], ret |-> Sum(A.factors)]
        ELSE [lists |-> Append(lists, <<A>> \o Bf), ret |-> Sum(Len(lists) + 1)]

\* sub(A, B)
sub(A, B) ==
    LET Bf == IF IsSum(B)
              THEN [k \in 1..Len(factors(B)) |-> LATR_neg(factors(B)[k])]
              ELSE <<LATR_neg(B)>>
    IN  IF IsSum(A)
        THEN [lists |-> [lists EXCEPT ![A.factors] = @ \o Bf], ret |-> Sum(A.factors)]
        ELSE [lists |-> Append(lists, <<A>> \o Bf), ret |-> Sum(Len(lists) + 1)]

\* The list comprehension `[a @ b for a in As for b in Bs]`.
Products(As, Bs) ==
    [k \in 1..(Len(As) * Len(Bs)) |->
        matmul_term(As[((k - 1) \div Len(Bs)) + 1], Bs[((k - 1) % Len(Bs)) + 1])]

\* Sum(comprehension): the first exception raised in the comprehension
\* leaves the call, otherwise a Sum over a fresh list is returned.
NewSum(terms) ==
    IF \E k \in 1..Len(terms) : IsRaised(terms[k])
    THEN [lists |-> lists,
          ret |-> terms[CHOOSE k \in 1..Len(terms) :
                          /\ IsRaised(terms[k])
                          /\ \A m \in 1..(k - 1) : ~IsRaised(terms[m])]]
    ELSE [lists |-> Append(lists, terms), ret |-> Sum(Len(lists) + 1)]

\* matmul(A, B); B is a representation or a dense array
matmul(A, B) ==
    IF IsSum(A) THEN
        IF IsSum(B) THEN NewSum(Products(factors(A), factors(B)))
        ELSE NewSum(Products(factors(A), <<B>>))
    ELSE
        IF IsSum(B) THEN NewSum(Products(<<A>>, factors(B)))
        ELSE [lists |-> lists, ret |-> matmul_term(A, B)]

\* Sum.T / LATR.T
T(A) ==
    IF IsSum(A) THEN NewSum([k \in 1..Len(factors(A)) |-> LATR_T(factors(A)[k])])
    ELSE [lists |-> lists, ret |-> LATR_T(A)]

\* Sum.__neg__ / LATR.__neg__
neg(A) ==
    IF IsSum(A) THEN NewSum([k \in 1..Len(factors(A)) |-> LATR_neg(factors(A)[k])])
    ELSE [lists |-> lists, ret |-> LATR_neg(A)]

(***************************************************************************)
(* Inputs.                                                                 *)
(***************************************************************************)
\* Arrays given to dot(X, Y): N x k and k x N.
FactorInputs ==
    { <<IntMat(2, 1, <<<<1>>, <<2>>>>), IntMat(1, 2, <<<<3, -1>>>>)>>,
      <<IntMat(2, 2, <<<<1, 0>>, <<1, 1>>>>), IntMat(2, 2, <<<<2, 1>>, <<0, 1>>>>)>>,
      <<IntMat(3, 1, <<<<1>>, <<0>>, <<2>>>>), IntMat(1, 3, <<<<2, 1, 0>>>>)>> }

\* Arrays given to dot(X) in algebra runs.
AlgebraSpectralInputs == { IntMat(2, 2, <<<<1, 0>>, <<0, 2>>>>) }

\* Arrays given to dot(X) in construction runs: symmetric positive definite,
\* not symmetric, singular, 1 x 1, and one with equal singular values.
SpectralInputs ==
    { IntMat(2, 2, <<<<1, 0>>, <<0, 2>>>>),
      IntMat(2, 2, <<<<0, 3>>, <<1, 0>>>>),
      IntMat(2, 2, <<<<2, 0>>, <<0, 0>>>>),
      IntMat(2, 2, <<<<1, 0>>, <<0, 1>>>>),
      IntMat(1, 1, <<<<3>>>>) }

\* (U, S) pairs given to LLT directly.
TupleInputs ==
    { [kind |-> "tuple", U |-> IntMat(2, 2, <<<<1, 0>>, <<0, 1>>>>), S |-> <<Q(2), Q(1)>>],
      [kind |-> "tuple", U |-> IntMat(2, 1, <<<<0>>, <<1>>>>), S |-> <<Q(3)>>] }

RCONDS == { Q(0), <<1, 2>>, Q(1), Q(2) }

MODES == { "truncate", "clamp", "nearest" }

\* np.linalg.svd on the arrays above, tabulated once.
Decompositions == [X \in SpectralInputs \cup AlgebraSpectralInputs |-> svd(X)]

\* Dense right operands of `@`.
DenseOperands ==
    { IntMat(2, 2, <<<<1, 2>>, <<0, 1>>>>),
      IntMat(3, 3, <<<<1, 0, 0>>, <<0, 2, 0>>, <<1, 0, 1>>>>) }

(***************************************************************************)
(* Actions: one call each.  `last` records the call just made: the         *)
(* operation, its operands (indices into objs, or the argument values),    *)
(* the index of the object returned (0 when none was stored) and the       *)
(* outcome (the kind of the value returned, or the exception raised).      *)
(***************************************************************************)
Outcome(ret) == IF IsRaised(ret) THEN ret.exc ELSE ret.kind

Stored(ret) == ~IsRaised(ret) /\ ~IsNdarray(ret)

Return(op, a, b, arg, res) ==
    /\ lists' = res.lists
    /\ objs' = IF Stored(res.ret) THEN Append(objs, res.ret) ELSE objs
    /\ last' = [op |-> op, a |-> a, b |-> b, arg |-> arg,
                r |-> IF Stored(res.ret) THEN Len(objs) + 1 ELSE 0,
                out |-> Outcome(res.ret)]

NoArg == <<>>

HasRoom == Len(objs) < MaxObjs

\* dot(X, rcond=rcond, mode=mode) with X an array
DotSpectral(X, rcond, mode) ==
    /\ HasRoom
    /\ \E d \in Decompositions[X] :
          Return("LLT", 0, 0,
                 [X |-> ndarray(X), rcond |-> rcond, mode |-> mode, d |-> d],
                 [lists |-> lists, ret |-> dot1(ndarray(X), rcond, mode, d)])

\* dot(P, mode=mode) / LLT(P, mode=mode) with P a (U, S) tuple
DotTuple(P, mode) ==
    /\ HasRoom
    /\ Return("LLT", 0, 0,
              [X |-> P, rcond |-> Q(0), mode |-> mode, d |-> <<>>],
              [lists |-> lists, ret |-> dot1(P, Q(0), mode, <<>>)])

\* dot(X, Y)
DotFactor(X, Y) ==
    /\ HasRoom
    /\ Return("LATR", 0, 0, NoArg, [lists |-> lists, ret |-> dot2(X, Y)])

\* objs[i] + objs[j]
Add(i, j) == HasRoom /\ Return("add", i, j, NoArg, add(objs[i], objs[j]))

\* objs[i] - objs[j]
Sub(i, j) == HasRoom /\ Return("sub", i, j, NoArg, sub(objs[i], objs[j]))

\* objs[i] @ objs[j]
Matmul(i, j) == HasRoom /\ Return("matmul", i, j, NoArg, matmul(objs[i], objs[j]))

\* objs[i] @ D with D a dense array
MatmulDense(i, D) == HasRoom /\ Return("matmul", i, 0, ndarray(D), matmul(objs[i], ndarray(D)))

\* objs[i].T
Transpose(i) == HasRoom /\ Return("T", i, 0, NoArg, T(objs[i]))

\* -objs[i]
Negate(i) == HasRoom /\ Return("neg", i, 0, NoArg, neg(objs[i]))

\* objs[i].pinv()
Pinv(i) ==
    /\ HasRoom
    /\ objs[i].kind = "LLT"
    /\ Return("pinv", i, 0, NoArg, [lists |-> lists, ret |-> pinv(objs[i])])

Init == /\ objs = <<>>
        /\ lists = <<>>
        /\ last = [op |-> "init", a |-> 0, b |-> 0, arg |-> NoArg, r |-> 0, out |-> "none"]

Next ==
    \/ \E X \in AlgebraSpectralInputs : DotSpectral(X, Q(0), "truncate")
    \/ \E p \in FactorInputs : DotFactor(p[1], p[2])
    \/ \E i \in 1..Len(objs) : Transpose(i)
    \/ \E i \in 1..Len(objs) : Negate(i)
    \/ \E i, j \in 1..Len(objs) : Add(i, j)
    \/ \E i, j \in 1..Len(objs) : Sub(i, j)
    \/ \E i, j \in 1..Len(objs) : Matmul(i, j)
    \/ \E i \in 1..Len(objs), D \in DenseOperands : MatmulDense(i, D)

\* The algebra: factory-built representations combined by + - @ .T and negation.
Spec == Init /\ [][Next]_vars

NextLLT ==
    \/ /\ objs = <<>>
       /\ \E X \in SpectralInputs, rcond \in RCONDS, mode \in MODES : DotSpectral(X, rcond, mode)
    \/ /\ objs = <<>>
       /\ \E P \in TupleInputs, mode \in MODES : DotTuple(P, mode)
    \/ \E i \in 1..Len(objs) : Pinv(i)

\* Construction of one Spectral representation and its chain of pseudo-inverses.
SpecLLT == Init /\ [][NextLLT]_vars
(***************************************************************************)
(* Properties.                                                             *)
(***************************************************************************)
\* The square dimensions found in a representation (one value when it is
\* a well-formed N x N matrix).
DimsOf(o) ==
    IF IsSum(o)
    THEN {(IF IsNdarray(factors(o)[k]) THEN factors(o)[k].a.nr ELSE lhs(factors(o)[k]).nr) :
             k \in 1..Len(factors(o))}
    ELSE IF IsNdarray(o) THEN {o.a.nr} ELSE {lhs(o).nr}

\* o denotes a matrix: todense() returns an array.
Denotes(o) == ~IsErr(todense(o))

NumTerms(o) == IF IsSum(o) THEN Len(factors(o)) ELSE 1

\* C1: no algebra operation changes an existing representation: across every
\* step each existing object keeps its stored state and its todense()/trace()
\* value, and a Sum returned by the step does not use the list of an older Sum.
C1_NoOperandMutated ==
    [][\A i \in 1..Len(objs) :
          /\ objs'[i] = objs[i]
          /\ IsSum(objs[i]) => lists'[objs[i].factors] = lists[objs[i].factors]
          /\ todenseIn(lists', objs'[i]) = todenseIn(lists, objs[i])
          /\ traceIn(lists', objs'[i]) = traceIn(lists, objs[i])
          /\ \A r \in (Len(objs) + 1)..Len(objs') :
                (IsSum(objs'[r]) /\ IsSum(objs[i])) => objs'[r].factors # objs[i].factors]_vars

\* C2: after R = A + B, R.trace() = A.trace() + B.trace(); after R = A - B,
\* R.todense() = A.todense() - B.todense(); A and B (of equal dimension) are
\* read after the call.
C2_AddSubLinear ==
    (last.op \in {"add", "sub"}
       /\ Denotes(objs[last.a]) /\ Denotes(objs[last.b])
       /\ todense(objs[last.a]).nr = todense(objs[last.b]).nr)
    => /\ last.r # 0
       /\ last.op = "add" =>
             trace(objs[last.r]) = QAdd(trace(objs[last.a]), trace(objs[last.b]))
       /\ last.op = "sub" =>
             todense(objs[last.r]) = MatSub(todense(objs[last.a]), todense(objs[last.b]))

\* C3: for representations A, B of equal dimension, (A @ B).todense() =
\* A.todense() @ B.todense(); two non-Sum operands give the Factor
\* (A.lhs, (A.rhs B.lhs) B.rhs); a Sum operand gives a Sum of
\* |left| x |right| terms.
C3_MatmulDense ==
    (last.op = "matmul" /\ last.b # 0) =>
       LET A  == objs[last.a]
           B  == objs[last.b]
           DA == todense(A)
           DB == todense(B)
       IN  (~IsErr(DA) /\ ~IsErr(DB) /\ DA.nc = DB.nr) =>
           /\ last.r # 0
           /\ todense(objs[last.r]) = MatMul(DA, DB)
           /\ (~IsSum(A) /\ ~IsSum(B)) =>
                 /\ objs[last.r].kind = "LATR"
                 /\ objs[last.r].lhs = lhs(A)
                 /\ objs[last.r].rhs = MatMul(MatMul(rhs(A), lhs(B)), rhs(B))
           /\ (IsSum(A) \/ IsSum(B)) =>
                 /\ IsSum(objs[last.r])
                 /\ NumTerms(objs[last.r]) = NumTerms(A) * NumTerms(B)

\* A Sum @ Sum product of 2 x 2 terms whose left operand holds a Spectral term.
C3_Witness ==
    /\ last.op = "matmul" /\ last.b # 0 /\ last.r # 0
    /\ IsSum(objs[last.a]) /\ IsSum(objs[last.b])
    /\ NumTerms(objs[last.a]) = 2 /\ NumTerms(objs[last.b]) = 2
    /\ NumTerms(objs[last.r]) = 4
    /\ \E k \in 1..2 : factors(objs[last.a])[k].kind = "LLT"
    /\ Denotes(objs[last.r])

\* X is symmetric positive definite: X = X^T = U diag(S) U^T with all S > 0.
IsSPD(X) ==
    /\ X = MatT(X)
    /\ \E d \in Decompositions[X] :
          /\ \A j \in 1..Len(d.S) : d.S[j][1] > 0
          /\ MatMul(ScaleCols(d.U, d.S), MatT(d.U)) = X

FromSPD ==
    /\ last.op = "LLT" /\ IsNdarray(last.arg.X) /\ IsSPD(last.arg.X.a)
    /\ last.arg.rcond = Q(0) /\ last.arg.mode = "truncate"

\* C4 as stated: dot(X) with rcond = 0 for symmetric positive definite X has
\* todense() = X and trace() = sum(diag(X)).
C4_ReproducesX ==
    FromSPD => /\ last.r # 0
               /\ todense(objs[last.r]) = last.arg.X.a
               /\ trace(objs[last.r]) = ColTotal(MatDiagonal(last.arg.X.a))

\* C4 amended: dot(X) with rcond = 0 for symmetric positive definite X is a
\* Spectral representation with todense() = X @ X.T and trace() =
\* sum(diag(X @ X.T)).
C4_ReproducesGram ==
    FromSPD => LET G == MatMul(last.arg.X.a, MatT(last.arg.X.a))
               IN  /\ last.r # 0
                   /\ objs[last.r].kind = "LLT"
                   /\ todense(objs[last.r]) = G
                   /\ trace(objs[last.r]) = ColTotal(MatDiagonal(G))

C4_Witness ==
    /\ FromSPD /\ last.r # 0
    /\ last.arg.X.a = IntMat(2, 2, <<<<1, 0>>, <<0, 2>>>>)
    /\ todense(objs[last.r]) = IntMat(2, 2, <<<<1, 0>>, <<0, 4>>>>)

\* C5: constructing a Spectral representation with a mode other than
\* 'truncate' or 'clamp' raises RuntimeError and returns no object, whether
\* the first argument is an array or a (U, S) pair.
C5_UnknownModeRaises ==
    (last.op = "LLT" /\ last.arg.mode \notin {"truncate", "clamp"})
    => (last.out = "RuntimeError" /\ last.r = 0)

\* C6: a binary operation on operands of different dimensions raises and
\* returns nothing, and no Sum ever holds terms of different dimensions.
C6_DimensionChecked ==
    /\ (last.op \in {"add", "sub", "matmul"}
          /\ Cardinality(DimsOf(objs[last.a])
                         \cup (IF last.b # 0 THEN DimsOf(objs[last.b]) ELSE DimsOf(last.arg))) > 1)
       => (last.r = 0 /\ last.out \in {"ValueError", "TypeError"})
    /\ \A i \in 1..Len(objs) : Cardinality(DimsOf(objs[i])) = 1

Truncated ==
    /\ last.op = "LLT" /\ IsNdarray(last.arg.X) /\ last.arg.mode = "truncate"
    /\ last.r # 0

\* C7: with mode 'truncate' and rcond = r, every retained eigenvalue is >=
\* r * max(S), the retained columns of U are exactly those of the retained
\* eigenvalues (every component >= r * max(S) is kept, in order), and a
\* smaller rcond never retains fewer components.
C7_Truncate ==
    Truncated =>
        LET o    == objs[last.r]
            d    == last.arg.d
            beta == QMul(SeqMax(d.S), last.arg.rcond)
            kept == {j \in 1..Len(d.S) : QGeq(d.S[j], beta)}
        IN  /\ \A j \in 1..Len(o.S) : QGeq(o.S[j], beta)
            /\ Len(o.S) = Cardinality(kept)
            /\ o.U.nr = d.U.nr /\ o.U.nc = Len(o.S)
            /\ \E f \in [1..Len(o.S) -> kept] :
                  /\ \A j \in 1..(Len(o.S) - 1) : f[j] < f[j + 1]
                  /\ \A j \in 1..Len(o.S) :
                        /\ o.S[j] = d.S[f[j]]
                        /\ \A i \in 1..o.U.nr : o.U.a[i][j] = d.U.a[i][f[j]]
            /\ \A r1 \in RCONDS :
                  QGeq(last.arg.rcond, r1) =>
                      Len(LLT(last.arg.X, r1, "truncate", d).S) >= Len(o.S)

\* A truncation that drops a component.
C7_Witness ==
    /\ Truncated
    /\ last.arg.rcond = <<1, 2>>
    /\ Len(last.arg.d.S) = 2
    /\ Len(objs[last.r].S) = 1

\* C8: pinv() returns a new Spectral representation with the same U and
\* eigenvalues 1/S, leaves the receiver unchanged, and the pseudo-inverse of
\* the result has the receiver's U and eigenvalues again.
C8_Pinv ==
    [][last'.op = "pinv" =>
          LET i == last'.a
              r == last'.r
          IN  /\ r = Len(objs) + 1 /\ Len(objs') = r
              /\ objs'[i] = objs[i]
              /\ objs'[r].kind = "LLT"
              /\ objs'[r].U = objs[i].U
              /\ Len(objs'[r].S) = Len(objs[i].S)
              /\ \A j \in 1..Len(objs[i].S) : objs'[r].S[j] = QInv(objs[i].S[j])
              /\ pinv(objs'[r]).S = objs[i].S
              /\ pinv(objs'[r]).U = objs[i].U]_vars

\* The pseudo-inverse of a pseudo-inverse of a representation built with
\* rcond = 0 that retained a zero eigenvalue.
C8_Witness ==
    /\ last.op = "pinv" /\ last.a = 2 /\ last.r = 3
    /\ objs[1].S = <<Q(2), Q(0)>>
    /\ objs[2].S = <<<<1, 2>>, <<1, 0>>>>
    /\ objs[3].S = objs[1].S /\ objs[3].U = objs[1].U

\* C9: diagonal() is the main diagonal of todense() and trace() is its sum,
\* for every representation and every term of a Sum; the Spectral diagonal
\* equals the generic Factor formula on its lhs/rhs.
C9_Element(t) ==
    LET d == MatDiagonal(LATR_todense(t))
    IN  /\ term_diagonal(t) = d
        /\ LATR_trace(t) = ColTotal(d)
        /\ t.kind = "LLT" => LLT_diagonal(t) = LATR_diagonal(t)

C9_Diagonal ==
    \A i \in 1..Len(objs) :
        LET D == todense(objs[i])
        IN  ~IsErr(D) =>
                /\ diagonal(objs[i]) = MatDiagonal(D)
                /\ trace(objs[i]) = ColTotal(MatDiagonal(D))
                /\ IF IsSum(objs[i])
                   THEN \A k \in 1..Len(factors(objs[i])) : C9_Element(factors(objs[i])[k])
                   ELSE C9_Element(objs[i])

\* A Sum of three rank-2 Factor terms.
C9_Witness ==
    \E i \in 1..Len(objs) :
        /\ IsSum(objs[i]) /\ Len(factors(objs[i])) = 3 /\ Denotes(objs[i])
        /\ \A k \in 1..3 : factors(objs[i])[k].kind = "LATR" /\ lhs(factors(objs[i])[k]).nc = 2

\* C10: every term stored in every Sum is a Factor or Spectral
\* representation.
C10_TermsAreRepresentations ==
    \A i \in 1..Len(objs) :
        IsSum(objs[i]) =>
            \A k \in 1..Len(factors(objs[i])) : factors(objs[i])[k].kind \in {"LATR", "LLT"}
====
